---- MODULE Spec2Model ----
(***************************************************************************)
(* A model of the Effect aggregate of src/src/effect/effect.py: the        *)
(* classifying constructor, the two lookups, the combination operator `&`, *)
(* map and and_then.  IdentifiedValueSet (effect.identity) and the         *)
(* combination of two tagged values (effect.state_transition) are used by  *)
(* effect.py and are modelled from sections 3, 4.1 and 4.2 of the          *)
(* specification.                                                          *)
(***************************************************************************)
EXTENDS Integers, Sequences, FiniteSets, TLC

VARIABLES left, right, result, op

vars == <<left, right, result, op>>

-----------------------------------------------------------------------------
(* The universe of the model. *)

\* identities are 1..MaxId
MaxId == 2

Ids == 1..MaxId

\* A caller hands the constructor at most two tagged values at a time, as
\* the worked example does (new(a) & mutated(xx)).
Lens == {0, 1, 2}

\* The other field of a value (X.version in the tests) takes two values.
Vers == {1, 2}

\* An identified value: an identity field and one other field.
Values == [id : Ids, ver : Vers]

\* The untracked primary result of a computation (Effect.just).
Justs == BOOLEAN

-----------------------------------------------------------------------------
(* effect.state_transition: the five tagged variants. *)

NewValue(v) == [tag |-> "NewValue", just |-> v]
TranslatedValue(v) == [tag |-> "TranslatedValue", just |-> v]
MutatedValue(v) == [tag |-> "MutatedValue", just |-> v]
DeadValue(v) == [tag |-> "DeadValue", just |-> v]
NoValue(v) == [tag |-> "NoValue", just |-> v]

Tags == {"NewValue", "TranslatedValue", "MutatedValue", "DeadValue", "NoValue"}

TaggedValues == [tag : Tags, just : Values]

\* The one error of the algebra.  A record, so that it compares (unequal)
\* with tagged values and with Effects.
InvalidStateTransitionError == [error |-> "InvalidStateTransitionError"]

Raised(x) == x = InvalidStateTransitionError


\* Combination of two tagged values of one identity, `left` observed first:
\* the table of section 4.2.  The result keeps the right value, except in the
\* column of the neutral tag, where it keeps the left tag and the left value.
StateTransitionAnd(l, r) ==
    CASE r.tag = "NoValue" /\ l.tag # "NoValue" -> l
      [] l.tag = "NoValue" -> r
      [] l.tag = "NewValue" /\ r.tag = "NewValue" -> NewValue(r.just)
      [] l.tag = "NewValue" /\ r.tag = "MutatedValue" -> NewValue(r.just)
      [] l.tag = "NewValue" /\ r.tag = "DeadValue" -> NoValue(r.just)
      [] l.tag = "TranslatedValue" /\ r.tag = "TranslatedValue" -> TranslatedValue(r.just)
      [] l.tag = "TranslatedValue" /\ r.tag = "MutatedValue" -> TranslatedValue(r.just)
      [] l.tag = "TranslatedValue" /\ r.tag = "DeadValue" -> NoValue(r.just)
      [] l.tag = "MutatedValue" /\ r.tag = "MutatedValue" -> MutatedValue(r.just)
      [] l.tag = "MutatedValue" /\ r.tag = "DeadValue" -> DeadValue(r.just)
      [] l.tag = "DeadValue" /\ r.tag = "DeadValue" -> DeadValue(r.just)
      [] OTHER -> InvalidStateTransitionError

\* The table leaves open which value NoValue & NoValue keeps ("right or
\* left"): both outcomes are possible results of that one pair.
StateTransitionAndOutcomes(l, r) ==
    IF l.tag = "NoValue" /\ r.tag = "NoValue"
    THEN {NoValue(l.just), NoValue(r.just)}
    ELSE {StateTransitionAnd(l, r)}

-----------------------------------------------------------------------------
(* effect.identity: IdentifiedValueSet, a container of values holding at   *)
(* most one value per identity.  It is modelled as the set of its stored   *)
(* values.  An Identity is modelled by the value it was taken from         *)
(* (Identity.value); two identities are equal when the id fields are.      *)

SameIdentity(v, w) == v.id = w.id

\* IdentifiedValueSet(values): the latest value of each identity is kept.
IdentifiedValueSet(values) ==
    {values[i] : i \in {k \in DOMAIN values :
                          \A j \in DOMAIN values :
                              j > k => ~SameIdentity(values[j], values[k])}}

\* a | b: on a shared identity the right operand's value wins.
Union(a, b) == {v \in a : \A w \in b : ~SameIdentity(v, w)} \cup b

\* a & b: the identities of both, with the right operand's values.
Intersection(a, b) == {w \in b : \E v \in a : SameIdentity(v, w)}

\* a - b: the identities of a that b lacks.
Difference(a, b) == {v \in a : \A w \in b : ~SameIdentity(v, w)}

\* a.contains(value): membership by full equality.
Contains(a, value) == value \in a

\* a.identities: one Identity per stored value.
Identities(a) == a

\* Some order in which a container yields its values.  The container is
\* unordered; every use below is of values with pairwise distinct
\* identities, for which the constructor's result does not depend on it.
RECURSIVE Iterate(_)
Iterate(a) ==
    IF a = {} THEN <<>>
    ELSE LET v == CHOOSE x \in a : TRUE
         IN <<v>> \o Iterate(a \ {v})

-----------------------------------------------------------------------------
(* effect.effect: the Effect aggregate. *)

\* The dataclass Effect: the just value and four buckets, each empty by
\* default.
Effect(just, new_values, translated_values, mutated_values, dead_values) ==
    [just |-> just,
     new_values |-> new_values,
     translated_values |-> translated_values,
     mutated_values |-> mutated_values,
     dead_values |-> dead_values]

\* The values of `values` that carry `tag`, unwrapped, in their order.
JustOfTag(values, tag) ==
    LET chosen == SelectSeq(values, LAMBDA value : value.tag = tag)
    IN [i \in DOMAIN chosen |-> chosen[i].just]

\* A variant of of_values_with_state whose dead bucket also takes the
\* NoValue instances.
of_values_with_state_no_value_as_dead(just, values) ==
    Effect(just,
           IdentifiedValueSet(JustOfTag(values, "NewValue")),
           IdentifiedValueSet(JustOfTag(values, "TranslatedValue")),
           IdentifiedValueSet(JustOfTag(values, "MutatedValue")),
           IdentifiedValueSet(JustOfTag(values, "DeadValue")
                              \o JustOfTag(values, "NoValue")))

\* A variant of of_values_with_state whose mutated bucket is filled with
\* the DeadValue instances and whose dead bucket with the MutatedValue ones.
of_values_with_state_mutated_dead_swapped(just, values) ==
    Effect(just,
           IdentifiedValueSet(JustOfTag(values, "NewValue")),
           IdentifiedValueSet(JustOfTag(values, "TranslatedValue")),
           IdentifiedValueSet(JustOfTag(values, "DeadValue")),
           IdentifiedValueSet(JustOfTag(values, "MutatedValue")))

\* Effect.of_values_with_state(just=, values=): one bucket per non-neutral
\* class; a NoValue is an instance of none of them.
of_values_with_state(just, values) ==
    Effect(just,
           IdentifiedValueSet(JustOfTag(values, "NewValue")),
           IdentifiedValueSet(JustOfTag(values, "TranslatedValue")),
           IdentifiedValueSet(JustOfTag(values, "MutatedValue")),
           IdentifiedValueSet(JustOfTag(values, "DeadValue")))

\* Effect.__iter__: the union of the four buckets.
Effect__iter__(self) ==
    Union(Union(Union(self.new_values, self.translated_values),
                self.mutated_values),
          self.dead_values)

\* A variant of value_with_state_by_value whose translated branch returns
\* MutatedValue.
value_with_state_by_value_translated_as_mutated(self, value) ==
    IF Contains(self.new_values, value) THEN NewValue(value)
    ELSE IF Contains(self.translated_values, value) THEN MutatedValue(value)
    ELSE IF Contains(self.mutated_values, value) THEN MutatedValue(value)
    ELSE IF Contains(self.dead_values, value) THEN DeadValue(value)
    ELSE NoValue(value)

\* A variant of value_with_state_by_value that matches on identity.
value_with_state_by_value_same_identity(self, value) ==
    IF \E stored \in self.new_values : SameIdentity(stored, value)
    THEN NewValue(value)
    ELSE IF \E stored \in self.translated_values : SameIdentity(stored, value)
    THEN TranslatedValue(value)
    ELSE IF \E stored \in self.mutated_values : SameIdentity(stored, value)
    THEN MutatedValue(value)
    ELSE IF \E stored \in self.dead_values : SameIdentity(stored, value)
    THEN DeadValue(value)
    ELSE NoValue(value)

\* Effect.value_with_state_by_value: the first bucket, in the order new,
\* translated, mutated, dead, that contains the very value.
value_with_state_by_value(self, value) ==
    IF Contains(self.new_values, value) THEN NewValue(value)
    ELSE IF Contains(self.translated_values, value) THEN TranslatedValue(value)
    ELSE IF Contains(self.mutated_values, value) THEN MutatedValue(value)
    ELSE IF Contains(self.dead_values, value) THEN DeadValue(value)
    ELSE NoValue(value)

\* The stored value of a bucket whose identity equals `identity`.
StoredValue(bucket, identity) ==
    CHOOSE stored \in Identities(bucket) : SameIdentity(identity, stored)

HasIdentity(bucket, identity) ==
    \E stored \in Identities(bucket) : SameIdentity(identity, stored)

\* A variant of value_with_state_by_identity whose translated branch
\* returns NewValue.
value_with_state_by_identity_translated_as_new(self, identity) ==
    IF HasIdentity(self.new_values, identity)
    THEN NewValue(StoredValue(self.new_values, identity))
    ELSE IF HasIdentity(self.translated_values, identity)
    THEN NewValue(StoredValue(self.translated_values, identity))
    ELSE IF HasIdentity(self.mutated_values, identity)
    THEN MutatedValue(StoredValue(self.mutated_values, identity))
    ELSE IF HasIdentity(self.dead_values, identity)
    THEN DeadValue(StoredValue(self.dead_values, identity))
    ELSE NoValue(identity)

\* A variant of value_with_state_by_identity that never looks into
\* dead_values.
value_with_state_by_identity_without_dead(self, identity) ==
    IF HasIdentity(self.new_values, identity)
    THEN NewValue(StoredValue(self.new_values, identity))
    ELSE IF HasIdentity(self.translated_values, identity)
    THEN TranslatedValue(StoredValue(self.translated_values, identity))
    ELSE IF HasIdentity(self.mutated_values, identity)
    THEN MutatedValue(StoredValue(self.mutated_values, identity))
    ELSE NoValue(identity)

\* A variant of value_with_state_by_identity whose dead branch returns
\* MutatedValue.
value_with_state_by_identity_dead_as_mutated(self, identity) ==
    IF HasIdentity(self.new_values, identity)
    THEN NewValue(StoredValue(self.new_values, identity))
    ELSE IF HasIdentity(self.translated_values, identity)
    THEN TranslatedValue(StoredValue(self.translated_values, identity))
    ELSE IF HasIdentity(self.mutated_values, identity)
    THEN MutatedValue(StoredValue(self.mutated_values, identity))
    ELSE IF HasIdentity(self.dead_values, identity)
    THEN MutatedValue(StoredValue(self.dead_values, identity))
    ELSE NoValue(identity)

\* A variant of value_with_state_by_identity that never looks into
\* mutated_values.
value_with_state_by_identity_without_mutated(self, identity) ==
    IF HasIdentity(self.new_values, identity)
    THEN NewValue(StoredValue(self.new_values, identity))
    ELSE IF HasIdentity(self.translated_values, identity)
    THEN TranslatedValue(StoredValue(self.translated_values, identity))
    ELSE IF HasIdentity(self.dead_values, identity)
    THEN DeadValue(StoredValue(self.dead_values, identity))
    ELSE NoValue(identity)

\* Effect.value_with_state_by_identity: the first bucket, in the same
\* order, holding the identity, with the value stored there.
value_with_state_by_identity(self, identity) ==
    IF HasIdentity(self.new_values, identity)
    THEN NewValue(StoredValue(self.new_values, identity))
    ELSE IF HasIdentity(self.translated_values, identity)
    THEN TranslatedValue(StoredValue(self.translated_values, identity))
    ELSE IF HasIdentity(self.mutated_values, identity)
    THEN MutatedValue(StoredValue(self.mutated_values, identity))
    ELSE IF HasIdentity(self.dead_values, identity)
    THEN DeadValue(StoredValue(self.dead_values, identity))
    ELSE NoValue(identity)

\* A variant of next_intersection_values that looks the shared identity up
\* in the left Effect by full value, as the two differences are.
next_intersection_values_by_value(self, right_effect) ==
    LET intersection == Intersection(IdentifiedValueSet(Iterate(Effect__iter__(self))),
                                     IdentifiedValueSet(Iterate(Effect__iter__(right_effect))))
        identities == Iterate(Identities(intersection))
    IN [i \in DOMAIN identities |->
          StateTransitionAnd(value_with_state_by_value(self, identities[i]),
                             value_with_state_by_identity(right_effect, identities[i]))]

\* A variant of next_intersection_values that combines the two tags in the
\* other order: right & left.
next_intersection_values_swapped(self, right_effect) ==
    LET intersection == Intersection(IdentifiedValueSet(Iterate(Effect__iter__(self))),
                                     IdentifiedValueSet(Iterate(Effect__iter__(right_effect))))
        identities == Iterate(Identities(intersection))
    IN [i \in DOMAIN identities |->
          StateTransitionAnd(value_with_state_by_identity(right_effect, identities[i]),
                             value_with_state_by_identity(self, identities[i]))]

\* next_intersection_values of Effect.__and__: the two tags of each shared
\* identity, combined.
next_intersection_values(self, right_effect) ==
    LET intersection == Intersection(IdentifiedValueSet(Iterate(Effect__iter__(self))),
                                     IdentifiedValueSet(Iterate(Effect__iter__(right_effect))))
        identities == Iterate(Identities(intersection))
    IN [i \in DOMAIN identities |->
          StateTransitionAnd(value_with_state_by_identity(self, identities[i]),
                             value_with_state_by_identity(right_effect, identities[i]))]

\* A variant of Effect.__and__ that leaves out the invalid pairs instead of
\* raising: a partial combination.
Effect__and__partial(self, right_effect) ==
    LET left_values == IdentifiedValueSet(Iterate(Effect__iter__(self)))
        right_values == IdentifiedValueSet(Iterate(Effect__iter__(right_effect)))
        left_difference == Iterate(Difference(left_values, right_values))
        right_difference == Iterate(Difference(right_values, left_values))
        intersection_values == next_intersection_values(self, right_effect)
    IN of_values_with_state(
           right_effect.just,
           [i \in DOMAIN left_difference |->
              value_with_state_by_value(self, left_difference[i])]
           \o SelectSeq(intersection_values, LAMBDA value : ~Raised(value))
           \o [i \in DOMAIN right_difference |->
                 value_with_state_by_value(right_effect, right_difference[i])])

\* A variant of Effect.__and__ that forgets next_right_difference_values.
Effect__and__without_right_difference(self, right_effect) ==
    LET left_values == IdentifiedValueSet(Iterate(Effect__iter__(self)))
        right_values == IdentifiedValueSet(Iterate(Effect__iter__(right_effect)))
        left_difference == Iterate(Difference(left_values, right_values))
        intersection_values == next_intersection_values(self, right_effect)
    IN IF \E i \in DOMAIN intersection_values : Raised(intersection_values[i])
       THEN InvalidStateTransitionError
       ELSE of_values_with_state(
                right_effect.just,
                [i \in DOMAIN left_difference |->
                   value_with_state_by_value(self, left_difference[i])]
                \o intersection_values)

\* A variant of Effect.__and__ that forgets next_left_difference_values.
Effect__and__without_left_difference(self, right_effect) ==
    LET left_values == IdentifiedValueSet(Iterate(Effect__iter__(self)))
        right_values == IdentifiedValueSet(Iterate(Effect__iter__(right_effect)))
        right_difference == Iterate(Difference(right_values, left_values))
        intersection_values == next_intersection_values(self, right_effect)
    IN IF \E i \in DOMAIN intersection_values : Raised(intersection_values[i])
       THEN InvalidStateTransitionError
       ELSE of_values_with_state(
                right_effect.just,
                intersection_values
                \o [i \in DOMAIN right_difference |->
                      value_with_state_by_value(right_effect,
                                                right_difference[i])])

\* A variant of Effect.__and__ whose left_difference is all of left_values.
Effect__and__left_not_subtracted(self, right_effect) ==
    LET left_values == IdentifiedValueSet(Iterate(Effect__iter__(self)))
        right_values == IdentifiedValueSet(Iterate(Effect__iter__(right_effect)))
        left_difference == Iterate(left_values)
        right_difference == Iterate(Difference(right_values, left_values))
        intersection_values == next_intersection_values(self, right_effect)
    IN IF \E i \in DOMAIN intersection_values : Raised(intersection_values[i])
       THEN InvalidStateTransitionError
       ELSE of_values_with_state(
                right_effect.just,
                [i \in DOMAIN left_difference |->
                   value_with_state_by_value(self, left_difference[i])]
                \o intersection_values
                \o [i \in DOMAIN right_difference |->
                      value_with_state_by_value(right_effect, right_difference[i])])

\* A variant of Effect.__and__ that keeps self.just.
Effect__and__left_just(self, right_effect) ==
    LET left_values == IdentifiedValueSet(Iterate(Effect__iter__(self)))
        right_values == IdentifiedValueSet(Iterate(Effect__iter__(right_effect)))
        left_difference == Iterate(Difference(left_values, right_values))
        right_difference == Iterate(Difference(right_values, left_values))
        intersection_values == next_intersection_values(self, right_effect)
    IN IF \E i \in DOMAIN intersection_values : Raised(intersection_values[i])
       THEN InvalidStateTransitionError
       ELSE of_values_with_state(
                self.just,
                [i \in DOMAIN left_difference |->
                   value_with_state_by_value(self, left_difference[i])]
                \o intersection_values
                \o [i \in DOMAIN right_difference |->
                      value_with_state_by_value(right_effect, right_difference[i])])

\* Effect.__and__: the identities of one side keep their class, the shared
\* ones get the combined class, and the just value is the right one.  The
\* constructor consumes the generators, so an invalid pair raises out of
\* the whole combination.
Effect__and__(self, right_effect) ==
    LET left_values == IdentifiedValueSet(Iterate(Effect__iter__(self)))
        right_values == IdentifiedValueSet(Iterate(Effect__iter__(right_effect)))
        left_difference == Iterate(Difference(left_values, right_values))
        right_difference == Iterate(Difference(right_values, left_values))
        next_left_difference_values ==
            [i \in DOMAIN left_difference |->
               value_with_state_by_value(self, left_difference[i])]
        next_right_difference_values ==
            [i \in DOMAIN right_difference |->
               value_with_state_by_value(right_effect, right_difference[i])]
        intersection_values == next_intersection_values(self, right_effect)
    IN IF \E i \in DOMAIN intersection_values : Raised(intersection_values[i])
       THEN InvalidStateTransitionError
       ELSE of_values_with_state(
                right_effect.just,
                next_left_difference_values \o intersection_values
                    \o next_right_difference_values)

\* Effect.map: the constructor call passes func(self.just) and the new,
\* mutated and dead buckets; translated_values is not passed and takes its
\* default, the empty set.
map(self, func) ==
    Effect(func[self.just], self.new_values, {}, self.mutated_values,
           self.dead_values)

\* A variant of and_then that combines in the other order: func(just) & self.
and_then_swapped(self, func) == Effect__and__(func[self.just], self)

\* Effect.and_then
and_then(self, func) == Effect__and__(self, func[self.just])

-----------------------------------------------------------------------------
(* The inputs of the operations. *)

\* The sequences of tagged values a caller hands to the constructor.
TaggedSeqs == UNION {[1..n -> TaggedValues] : n \in Lens}

\* Each identity carries at most one tag (section 3: more than one is a
\* client programming error that the data model does not represent).
OneTagPerIdentity(values) ==
    \A i, j \in DOMAIN values :
        SameIdentity(values[i].just, values[j].just)
            => values[i].tag = values[j].tag

InputSeqs == {values \in TaggedSeqs : OneTagPerIdentity(values)}

\* The Effects the constructor builds from them.
Operands ==
    {of_values_with_state(just, values) : just \in Justs, values \in InputSeqs}

\* Effect(just): no value is touched.
Pure(just) == Effect(just, {}, {}, {}, {})

\* The functions handed to map.
MapFuncs == [Justs -> Justs]

\* A step that touches at most one value: what new(v), translated(v),
\* mutated(v), dead(v) and existing(v) of the tests build.
StepOperands ==
    {of_values_with_state(just, values) :
        just \in Justs, values \in {v \in InputSeqs : Len(v) <= 1}}

\* The functions handed to and_then: on one just value the step returns
\* an Effect of its own, on every other it touches nothing.
AndThenFuncs ==
    {[just \in Justs |-> IF just = at THEN effect ELSE Pure(just)] :
        at \in Justs, effect \in StepOperands}

\* Nothing is held.
None == [none |-> TRUE]

IsEffect(x) == x # None /\ ~Raised(x) /\ "new_values" \in DOMAIN x

-----------------------------------------------------------------------------
(* The state machine: a caller that builds an Effect and chains            *)
(* operations on it.  `left` is the Effect operated on, `right` the        *)
(* argument of the last operation, `result` what it returned or raised,    *)
(* `op` the last operation.                                                *)

Init ==
    /\ left = None
    /\ right = None
    /\ result = None
    /\ op = "init"

\* The caller holds an Effect and no result it has not yet taken up.
Ready == IsEffect(left) /\ result = None

\* Effect.of_values_with_state(just=just, values=values)
Construct ==
    /\ op = "init"
    /\ \E just \in Justs, values \in InputSeqs :
          /\ right' = [just |-> just, values |-> values]
          /\ result' = of_values_with_state(just, values)
    /\ op' = "of_values_with_state"
    /\ UNCHANGED left

\* left & right_effect
And ==
    /\ Ready
    /\ \E right_effect \in Operands :
          /\ right' = right_effect
          /\ result' = Effect__and__(left, right_effect)
    /\ op' = "and"
    /\ UNCHANGED left

\* left.map(func)
Map ==
    /\ Ready
    /\ \E func \in MapFuncs :
          /\ right' = func
          /\ result' = map(left, func)
    /\ op' = "map"
    /\ UNCHANGED left

\* left.and_then(func)
AndThen ==
    /\ Ready
    /\ \E func \in AndThenFuncs :
          /\ right' = func
          /\ result' = and_then(left, func)
    /\ op' = "and_then"
    /\ UNCHANGED left

\* left.value_with_state_by_value(value)
LookupByValue ==
    /\ Ready
    /\ \E value \in Values :
          /\ right' = value
          /\ result' = value_with_state_by_value(left, value)
    /\ op' = "value_with_state_by_value"
    /\ UNCHANGED left

\* left.value_with_state_by_identity(identity)
LookupByIdentity ==
    /\ Ready
    /\ \E identity \in Values :
          /\ right' = identity
          /\ result' = value_with_state_by_identity(left, identity)
    /\ op' = "value_with_state_by_identity"
    /\ UNCHANGED left

\* left & right of two tagged values of one identity
TagAnd ==
    /\ op = "init"
    /\ \E l \in TaggedValues, r \in TaggedValues :
          /\ SameIdentity(l.just, r.just)
          /\ left' = l
          /\ right' = r
          /\ result' \in StateTransitionAndOutcomes(l, r)
    /\ op' = "tag_and"

\* The caller goes on with the Effect it got.
Continue ==
    /\ IsEffect(result)
    /\ left' = result
    /\ right' = None
    /\ result' = None
    /\ op' = "continue"

Next ==
    \/ Construct
    \/ TagAnd
    \/ And
    \/ Map
    \/ AndThen
    \/ LookupByValue
    \/ LookupByIdentity
    \/ Continue

Spec == Init /\ [][Next]_vars

-----------------------------------------------------------------------------
(* Three Effects combined in both groupings.  `left` is a, `right` is      *)
(* <<b, c>> and `result` is <<(a & b) & c, a & (b & c)>>.                  *)

\* x & y where x or y may itself have raised.
AndOrRaise(x, y) ==
    IF Raised(x) \/ Raised(y) THEN InvalidStateTransitionError
    ELSE Effect__and__(x, y)

InitAssoc ==
    /\ left \in StepOperands
    /\ right = None
    /\ result = None
    /\ op = "of_values_with_state"

Assoc ==
    /\ Ready
    /\ \E b \in StepOperands, c \in StepOperands :
          /\ right' = <<b, c>>
          /\ result' = <<AndOrRaise(AndOrRaise(left, b), c),
                         AndOrRaise(left, AndOrRaise(b, c))>>
    /\ op' = "assoc"
    /\ UNCHANGED left

NextAssoc == Assoc

SpecAssoc == InitAssoc /\ [][NextAssoc]_vars

-----------------------------------------------------------------------------
(* Vocabulary of the properties: where an Effect holds an identity, read   *)
(* off its four buckets directly.                                          *)

BucketNames == {"new_values", "translated_values", "mutated_values", "dead_values"}

InBucket(effect, bucket, id) == \E v \in effect[bucket] : v.id = id

ValueIn(effect, bucket, id) == CHOOSE v \in effect[bucket] : v.id = id

BucketsOf(effect, id) == {bucket \in BucketNames : InBucket(effect, bucket, id)}

IdsIn(bucket) == {v.id : v \in bucket}

Touched(effect) ==
    IdsIn(effect.new_values) \cup IdsIn(effect.translated_values)
        \cup IdsIn(effect.mutated_values) \cup IdsIn(effect.dead_values)

\* No identity is in two buckets.
WellFormed(effect) ==
    LET new == IdsIn(effect.new_values)
        translated == IdsIn(effect.translated_values)
        mutated == IdsIn(effect.mutated_values)
        dead == IdsIn(effect.dead_values)
    IN /\ new \cap (translated \cup mutated \cup dead) = {}
       /\ translated \cap (mutated \cup dead) = {}
       /\ mutated \cap dead = {}

SameBuckets(e, f) == \A bucket \in BucketNames : e[bucket] = f[bucket]

TagOfBucket ==
    [bucket \in BucketNames |->
        CASE bucket = "new_values" -> "NewValue"
          [] bucket = "translated_values" -> "TranslatedValue"
          [] bucket = "mutated_values" -> "MutatedValue"
          [] bucket = "dead_values" -> "DeadValue"]

\* The tag an Effect gives an identity: that of the bucket holding it, the
\* neutral tag when no bucket does.
TagAt(effect, id) ==
    IF InBucket(effect, "new_values", id) THEN "NewValue"
    ELSE IF InBucket(effect, "translated_values", id) THEN "TranslatedValue"
    ELSE IF InBucket(effect, "mutated_values", id) THEN "MutatedValue"
    ELSE IF InBucket(effect, "dead_values", id) THEN "DeadValue"
    ELSE "NoValue"

\* The value an Effect stores for an identity it holds.
ValueAt(effect, id) == CHOOSE v \in Effect__iter__(effect) : v.id = id

\* The seven pairs (left tag, right tag) of section 8 that must raise.
InvalidPairs ==
    {<<"NewValue", "TranslatedValue">>, <<"TranslatedValue", "NewValue">>,
     <<"MutatedValue", "NewValue">>, <<"MutatedValue", "TranslatedValue">>,
     <<"DeadValue", "NewValue">>, <<"DeadValue", "TranslatedValue">>,
     <<"DeadValue", "MutatedValue">>}

\* The nine valid pairs of non-neutral tags and the tag each nets to.
ValidPairs ==
    (<<"NewValue", "NewValue">> :> "NewValue")
    @@ (<<"NewValue", "MutatedValue">> :> "NewValue")
    @@ (<<"TranslatedValue", "TranslatedValue">> :> "TranslatedValue")
    @@ (<<"TranslatedValue", "MutatedValue">> :> "TranslatedValue")
    @@ (<<"MutatedValue", "MutatedValue">> :> "MutatedValue")
    @@ (<<"MutatedValue", "DeadValue">> :> "DeadValue")
    @@ (<<"DeadValue", "DeadValue">> :> "DeadValue")
    @@ (<<"NewValue", "DeadValue">> :> "NoValue")
    @@ (<<"TranslatedValue", "DeadValue">> :> "NoValue")

\* The identities both operands of the last `&` hold.
SharedIds == Touched(left) \cap Touched(right)

AndDone == op = "and"

AndSucceeded == AndDone /\ IsEffect(result)

-----------------------------------------------------------------------------
(* C1: associativity of Effect combination.                                *)

AssocDone == op = "assoc"

NeitherRaises == ~Raised(result[1]) /\ ~Raised(result[2])

\* The step x & y pairs New or Translated on the left with Dead on the
\* right for some identity: the pair that nets to the neutral tag.
Cancels(x, y) ==
    /\ IsEffect(x)
    /\ IsEffect(y)
    /\ \E id \in Ids :
          /\ TagAt(x, id) \in {"NewValue", "TranslatedValue"}
          /\ TagAt(y, id) = "DeadValue"

NoStepCancels ==
    /\ ~Cancels(left, right[1])
    /\ ~Cancels(AndOrRaise(left, right[1]), right[2])
    /\ ~Cancels(right[1], right[2])
    /\ ~Cancels(left, AndOrRaise(right[1], right[2]))

\* C1 as stated: whenever neither (a & b) & c nor a & (b & c) raises, the
\* two groupings are equal Effects (same just, same four buckets).
C1_AssociativeAsStated ==
    AssocDone /\ NeitherRaises => result[1] = result[2]

\* C1, amended: whenever neither grouping raises and no step of either
\* grouping pairs New or Translated (left) with Dead (right) on an identity,
\* the two groupings are equal Effects.
C1_AssociativeWithoutCancellation ==
    AssocDone /\ NeitherRaises /\ NoStepCancels => result[1] = result[2]

\* Three Effects over one identity with three values not all equal, combined
\* both ways without raising and without a cancelling step.
C1_Witness ==
    /\ AssocDone
    /\ NeitherRaises
    /\ NoStepCancels
    /\ \E id \in Ids :
          /\ TagAt(left, id) = "NewValue"
          /\ TagAt(right[1], id) = "MutatedValue"
          /\ TagAt(right[2], id) = "MutatedValue"
          /\ ValueIn(left, "new_values", id) # ValueIn(right[1], "mutated_values", id)
          /\ ValueIn(right[2], "mutated_values", id) # ValueIn(right[1], "mutated_values", id)
          /\ InBucket(result[1], "new_values", id)
    /\ result[1] = result[2]

-----------------------------------------------------------------------------
(* C2: map and the four buckets.                                           *)

\* C2: e.map(f) has just = f(e.just) and each of its four buckets equal to
\* the corresponding bucket of e.
C2_MapChangesOnlyJust ==
    op = "map" =>
        /\ result.just = right[left.just]
        /\ SameBuckets(result, left)

-----------------------------------------------------------------------------
(* C3: the class of a shared identity after `&`.                           *)

\* C3: after a successful left & right, every identity held by both
\* operands is in exactly the bucket the table gives for (left's tag,
\* right's tag), in no bucket when the pair nets to the neutral tag, and
\* the value stored for it is the right operand's.
C3_SharedIdentityFollowsTable ==
    AndSucceeded =>
        \A id \in SharedIds :
            LET pair == <<TagAt(left, id), TagAt(right, id)>>
            IN /\ pair \in DOMAIN ValidPairs
               /\ \A bucket \in BucketNames :
                     IF TagOfBucket[bucket] = ValidPairs[pair]
                     THEN /\ InBucket(result, bucket, id)
                          /\ ValueIn(result, bucket, id) = ValueAt(right, id)
                     ELSE ~InBucket(result, bucket, id)

\* A shared identity whose two values differ lands in a bucket with the
\* right value, while another shared identity nets to no bucket.
C3_Witness ==
    /\ AndSucceeded
    /\ \E id \in Ids, other \in Ids :
          /\ TagAt(left, id) = "TranslatedValue"
          /\ TagAt(right, id) = "MutatedValue"
          /\ ValueIn(left, "translated_values", id) # ValueIn(right, "mutated_values", id)
          /\ ValueIn(result, "translated_values", id) = ValueIn(right, "mutated_values", id)
          /\ TagAt(left, other) = "NewValue"
          /\ TagAt(right, other) = "DeadValue"
          /\ BucketsOf(result, other) = {}

-----------------------------------------------------------------------------
(* C4: combination is all-or-nothing.                                      *)

\* C4: left & right raises InvalidStateTransition exactly when some
\* identity held by both operands has an invalid (left tag, right tag)
\* pair, whatever the other identities are; otherwise it returns an Effect.
C4_RaisesIffSomeSharedPairInvalid ==
    AndDone =>
        /\ Raised(result)
              <=> \E id \in SharedIds :
                     <<TagAt(left, id), TagAt(right, id)>> \in InvalidPairs
        /\ ~Raised(result) => IsEffect(result)

\* The combination raised although another shared identity has a valid
\* pair.
C4_Witness ==
    /\ AndDone
    /\ Raised(result)
    /\ \E id \in SharedIds, other \in SharedIds :
          /\ <<TagAt(left, id), TagAt(right, id)>> \in InvalidPairs
          /\ <<TagAt(left, other), TagAt(right, other)>> \in DOMAIN ValidPairs

-----------------------------------------------------------------------------
(* C5 to C7: the combination of two tags of one identity, as the table     *)
(* gives it and as `&` of two Effects that touch only that identity shows  *)
(* it.                                                                     *)

TagAndDone == op = "tag_and"

\* The identities the operands of the last `&` touch, when they are
\* Effects about one identity only; no identity otherwise.
OnlyIdentity ==
    IF AndDone
    THEN LET touched == Touched(left) \cup Touched(right)
         IN IF Cardinality(touched) = 1 THEN touched ELSE {}
    ELSE {}

\* C5: of the 25 pairs (left tag, right tag), exactly the seven of
\* InvalidPairs raise InvalidStateTransition; every other pair returns a
\* tagged value.  The same seven, and only they, make `&` of two Effects
\* about one identity raise.
C5_ExactlySevenPairsRaise ==
    /\ TagAndDone =>
          /\ Raised(result) <=> <<left.tag, right.tag>> \in InvalidPairs
          /\ ~Raised(result) => result \in TaggedValues
    /\ \A id \in OnlyIdentity :
          Raised(result)
              <=> <<TagAt(left, id), TagAt(right, id)>> \in InvalidPairs

\* Dead & Mutated raised.
C5_Witness ==
    /\ TagAndDone
    /\ left.tag = "DeadValue"
    /\ right.tag = "MutatedValue"
    /\ Raised(result)

\* C6: each of the nine valid pairs of non-neutral tags, applied to values
\* a (left) and b (right) of one identity, returns the table's tag wrapping
\* b; New & Dead and Translated & Dead return the neutral tag wrapping b.
\* `&` of the two one-value Effects holds b in the bucket of that tag and
\* nothing else, and in no bucket for the neutral tag.
C6_ValidPairsKeepRightValue ==
    /\ TagAndDone /\ <<left.tag, right.tag>> \in DOMAIN ValidPairs =>
          result = [tag |-> ValidPairs[<<left.tag, right.tag>>], just |-> right.just]
    /\ \A id \in OnlyIdentity :
          LET pair == <<TagAt(left, id), TagAt(right, id)>>
          IN pair \in DOMAIN ValidPairs =>
                /\ IsEffect(result)
                /\ \A bucket \in BucketNames :
                      result[bucket] =
                          IF TagOfBucket[bucket] = ValidPairs[pair]
                          THEN Effect__iter__(right)
                          ELSE {}

\* new(a) & dead(b), a # b, returned existing(b).
C6_Witness ==
    /\ TagAndDone
    /\ left.tag = "NewValue"
    /\ right.tag = "DeadValue"
    /\ left.just # right.just
    /\ result = NoValue(right.just)

\* C7: the neutral tag is a two-sided identity.  For t among New,
\* Translated, Mutated, Dead: t(v) & existing(v2) is t(v), existing(v) &
\* t(v2) is t(v2), and neither raises.  An Effect combined with one that
\* touches nothing keeps its buckets, on either side.
C7_NeutralTagIsIdentity ==
    /\ TagAndDone /\ left.tag # "NoValue" /\ right.tag = "NoValue" =>
          result = left
    /\ TagAndDone /\ left.tag = "NoValue" /\ right.tag # "NoValue" =>
          result = right
    /\ AndDone /\ Touched(right) = {} =>
          IsEffect(result) /\ SameBuckets(result, left)
    /\ AndDone /\ Touched(left) = {} =>
          IsEffect(result) /\ SameBuckets(result, right)

\* dead(v) & existing(v2), v # v2, returned dead(v).
C7_Witness ==
    /\ TagAndDone
    /\ left.tag = "DeadValue"
    /\ right.tag = "NoValue"
    /\ left.just # right.just
    /\ result = left

-----------------------------------------------------------------------------
(* C8: the identities of one operand only.                                 *)

\* C8: after a successful left & right, an identity held by one operand
\* only is in the result in the same bucket, and no other, with the same
\* value; when the operands share no identity the combination does not
\* raise and each result bucket is the union of the operands' buckets.
C8_UnsharedIdentitiesCarried ==
    /\ AndSucceeded =>
          \A bucket \in BucketNames :
              /\ \A v \in left[bucket] :
                    v.id \notin Touched(right) =>
                        v \in result[bucket] /\ BucketsOf(result, v.id) = {bucket}
              /\ \A v \in right[bucket] :
                    v.id \notin Touched(left) =>
                        v \in result[bucket] /\ BucketsOf(result, v.id) = {bucket}
    /\ AndDone /\ SharedIds = {} =>
          /\ IsEffect(result)
          /\ \A bucket \in BucketNames :
                result[bucket] = left[bucket] \cup right[bucket]

\* new(a) & mutated(x): new_values is {a}, mutated_values is {x},
\* dead_values is empty.
C8_Witness ==
    /\ AndSucceeded
    /\ SharedIds = {}
    /\ Cardinality(left.new_values) = 1
    /\ Touched(left) = {v.id : v \in left.new_values}
    /\ Cardinality(right.mutated_values) = 1
    /\ Touched(right) = {v.id : v \in right.mutated_values}
    /\ result.new_values = left.new_values
    /\ result.mutated_values = right.mutated_values
    /\ result.dead_values = {}

-----------------------------------------------------------------------------
(* C9: an identity is in at most one bucket.                               *)

\* C9: every Effect the caller builds from tagged values with one tag per
\* identity, and every Effect it gets from them by a sequence of
\* successful &, map and and_then, has each identity in at most one of the
\* four buckets.
C9_BucketsDisjoint ==
    /\ IsEffect(left) => WellFormed(left)
    /\ IsEffect(result) => WellFormed(result)

\* and_then on an Effect got from earlier steps returned an Effect with two
\* identities in different buckets, one of them held by both sides.
C9_Witness ==
    /\ op = "and_then"
    /\ IsEffect(result)
    /\ Touched(left) \cap Touched(right[left.just]) # {}
    /\ \E id \in Ids, other \in Ids :
          /\ BucketsOf(result, id) # {}
          /\ BucketsOf(result, other) # {}
          /\ BucketsOf(result, id) # BucketsOf(result, other)

-----------------------------------------------------------------------------
(* C10: the just value of a combination.                                   *)

\* C10: whenever left & right succeeds, the result's just value is the
\* right operand's, whatever the left just value and the buckets are.
C10_JustIsRightJust ==
    AndSucceeded => result.just = right.just

\* The two just values differed and both operands held values.
C10_Witness ==
    /\ AndSucceeded
    /\ left.just # right.just
    /\ Touched(left) # {}
    /\ Touched(right) # {}
    /\ result.just = right.just

-----------------------------------------------------------------------------
(* and_then *)

AndThenDone == op = "and_then"

\* The Effect the function handed to and_then returns for the just of left.
FuncEffect == right[left.just]

\* C11: e.and_then(f) returns exactly e & f(e.just) when that succeeds, and
\* raises exactly when e & f(e.just) raises.
C11_AndThenIsAndOfFuncResult ==
    AndThenDone =>
        /\ Raised(result) <=> Raised(Effect__and__(left, FuncEffect))
        /\ IsEffect(result) <=> IsEffect(Effect__and__(left, FuncEffect))
        /\ IsEffect(result) => result = Effect__and__(left, FuncEffect)

\* and_then succeeded with a function whose Effect depends on the just it is
\* given and shares an identity with left.
C11_Witness ==
    /\ AndThenDone
    /\ IsEffect(result)
    /\ right[TRUE] # right[FALSE]
    /\ Touched(left) \cap Touched(FuncEffect) # {}
    /\ result.just # left.just

-----------------------------------------------------------------------------
(* The empty Effect *)

\* C12: an Effect whose four buckets are empty is a left and right identity
\* of & on buckets.  With z empty, z & e and e & z both succeed and have the
\* four buckets of e; the just of z & e is that of e, the just of e & z is
\* that of z.
C12_EmptyEffectIsIdentityOnBuckets ==
    AndDone =>
        /\ Touched(left) = {} =>
              /\ IsEffect(result)
              /\ \A bucket \in BucketNames : result[bucket] = right[bucket]
              /\ result.just = right.just
        /\ Touched(right) = {} =>
              /\ IsEffect(result)
              /\ \A bucket \in BucketNames : result[bucket] = left[bucket]
              /\ result.just = right.just

\* e & z with e holding two identities in two buckets and a just other than
\* that of z.
C12_Witness ==
    /\ AndDone
    /\ Touched(right) = {}
    /\ Cardinality(Touched(left)) = 2
    /\ Cardinality({bucket \in BucketNames : left[bucket] # {}}) = 2
    /\ left.just # right.just
    /\ IsEffect(result)
    /\ SameBuckets(result, left)
    /\ result.just = right.just

-----------------------------------------------------------------------------
(* A chain e1 & e2 & ... & en, combined left to right.  `right` is the
   sequence of the steps taken so far, `left` the Effect accumulated before
   the last of them and `result` the Effect accumulated after it, or the
   error the last step raised. *)

\* The longest chain.
MaxChain == 3

\* The steps of a chain: each touches at most one value.  A step's just
\* plays no part in the buckets, so the steps all carry the same one.
ChainSteps == {effect \in StepOperands : effect.just = FALSE}

InitChain ==
    /\ left = None
    /\ \E effect \in ChainSteps :
          /\ right = <<effect>>
          /\ result = effect
    /\ op = "chain"

\* result & effect, the next step of the chain
ChainAnd ==
    /\ IsEffect(result)
    /\ Len(right) < MaxChain
    /\ \E effect \in ChainSteps :
          /\ right' = Append(right, effect)
          /\ result' = Effect__and__(result, effect)
    /\ left' = result
    /\ op' = "chain_and"

NextChain == ChainAnd

SpecChain == InitChain /\ [][NextChain]_vars

-----------------------------------------------------------------------------
(* The lifecycle of one identity along a chain *)

ChainDone == op \in {"chain", "chain_and"}

ChainSucceeded == ChainDone /\ IsEffect(result)

\* The tag step k of the chain asserts for an identity.
TagOfStep(k, id) == TagAt(right[k], id)

\* The steps of the chain that assert a non-neutral tag for an identity.
Mentions(id) == {k \in DOMAIN right : TagOfStep(k, id) # "NoValue"}

FirstAppearance == {"NewValue", "TranslatedValue"}

\* C13 as stated: in a chain that succeeds, the non-neutral tags asserted
\* for one identity by the successive steps are at most one first-appearance
\* tag (New or Translated), at the start, then any number of Mutated, then
\* at most one Dead, and nothing after Dead.
C13_LifecycleOrderAsStated ==
    ChainSucceeded =>
        \A id \in Ids : \A k \in Mentions(id) :
            /\ TagOfStep(k, id) \in FirstAppearance =>
                  \A j \in Mentions(id) : k <= j
            /\ TagOfStep(k, id) = "DeadValue" =>
                  \A j \in Mentions(id) : j <= k

\* Where the lifecycle of an identity stands after one more asserted tag.
\* "NoValue": no lifecycle is open; "NewValue", "TranslatedValue": one that
\* began with that tag is open; "MutatedValue": one that began with Mutated
\* is open; "DeadValue": one that did not begin in the chain has ended;
\* "broken": the order was not kept.
LifecycleNext(phase, tag) ==
    CASE tag = "NoValue" -> phase
      [] phase = "NoValue" -> tag
      [] phase \in FirstAppearance ->
            IF tag \in {phase, "MutatedValue"} THEN phase
            ELSE IF tag = "DeadValue" THEN "NoValue"
            ELSE "broken"
      [] phase = "MutatedValue" ->
            IF tag \in {"MutatedValue", "DeadValue"} THEN tag ELSE "broken"
      [] phase = "DeadValue" ->
            IF tag = "DeadValue" THEN "DeadValue" ELSE "broken"
      [] OTHER -> "broken"

RECURSIVE LifecyclePhase(_, _)
LifecyclePhase(id, k) ==
    IF k = 0 THEN "NoValue"
    ELSE LifecycleNext(LifecyclePhase(id, k - 1), TagOfStep(k, id))

\* C13, amended: in a chain that succeeds, the tags asserted for one
\* identity keep the order of LifecycleNext.  A lifecycle that begins with
\* New (or Translated) goes on with New (or Translated) again and Mutated,
\* in any mix, and ends with Dead, after which another may begin; one that
\* begins with Mutated goes on with Mutated, then Dead; after that Dead, or
\* a Dead that began the sequence, only Dead follows.
C13_LifecycleOrder ==
    ChainSucceeded =>
        \A id \in Ids : LifecyclePhase(id, Len(right)) # "broken"

\* New, Dead, Translated on one identity: the chain succeeded and holds the
\* identity as translated.
C13_Witness ==
    /\ ChainSucceeded
    /\ Len(right) = 3
    /\ \E id \in Ids :
          /\ TagOfStep(1, id) = "NewValue"
          /\ TagOfStep(2, id) = "DeadValue"
          /\ TagOfStep(3, id) = "TranslatedValue"
          /\ TagAt(result, id) = "TranslatedValue"

-----------------------------------------------------------------------------
(* Lookup *)

ByValueDone == op = "value_with_state_by_value"

ByIdentityDone == op = "value_with_state_by_identity"

\* The buckets of left that hold the very value looked up.
BucketsWithValue == {bucket \in BucketNames : right \in left[bucket]}

\* C14: value_with_state_by_identity returns the tag of the bucket holding
\* an entry of that identity, wrapping the value the Effect stores, and
\* NoValue when no bucket holds the identity.  value_with_state_by_value
\* returns a non-neutral tag only when a bucket holds a value fully equal to
\* the one asked for, then that bucket's tag; a value whose identity is
\* stored with other fields yields NoValue of the value asked for.
C14_Lookup ==
    /\ ByIdentityDone =>
          IF right.id \in Touched(left)
          THEN /\ result.tag = TagAt(left, right.id)
               /\ result.just = ValueAt(left, right.id)
          ELSE result = NoValue(right)
    /\ ByValueDone =>
          /\ result.just = right
          /\ result.tag # "NoValue" =>
                \E bucket \in BucketsWithValue : result.tag = TagOfBucket[bucket]
          /\ BucketsWithValue # {} => result.tag # "NoValue"
          /\ right.id \in Touched(left) /\ ValueAt(left, right.id) # right =>
                result = NoValue(right)

\* A value looked up by value whose identity the Effect stores with another
\* version: the answer is NoValue of the value asked for.
C14_Witness ==
    /\ ByValueDone
    /\ right.id \in Touched(left)
    /\ ValueAt(left, right.id) # right
    /\ result = NoValue(right)

-----------------------------------------------------------------------------
(* The constructor *)

ConstructDone == op = "of_values_with_state"

\* The inputs of a tag that no later input of the same tag and the same
\* identity replaces.
KeptInputs(values, tag) ==
    {i \in DOMAIN values :
        /\ values[i].tag = tag
        /\ \A j \in DOMAIN values :
              j > i /\ values[j].tag = tag => values[j].just.id # values[i].just.id}

-----------------------------------------------------------------------------
(* Order of the operands *)

\* C16: & is order-sensitive.  There are well-formed a and b about one
\* shared identity with a & b succeeding and b & a raising: whenever a tags
\* the identity New and b tags it Mutated, a & b is an Effect and b & a is
\* the error.
C16_OrderSensitive ==
    AndDone =>
        \A id \in OnlyIdentity :
            TagAt(left, id) = "NewValue" /\ TagAt(right, id) = "MutatedValue" =>
                /\ WellFormed(left) /\ WellFormed(right)
                /\ IsEffect(result)
                /\ Raised(Effect__and__(right, left))

\* new(v) & mutated(v2) returned an Effect holding v2 as new.
C16_Witness ==
    /\ AndSucceeded
    /\ \E id \in OnlyIdentity :
          /\ TagAt(left, id) = "NewValue"
          /\ TagAt(right, id) = "MutatedValue"
          /\ ValueAt(left, id) # ValueAt(right, id)
          /\ TagAt(result, id) = "NewValue"
          /\ ValueAt(result, id) = ValueAt(right, id)
          /\ Raised(Effect__and__(right, left))

-----------------------------------------------------------------------------
(* Dead along a chain *)

\* The chain has taken a step from an accumulated Effect.
ChainStepDone == op = "chain_and"

LastStep == Len(right)

\* C17: Dead is absorbing along a chain.  Once the accumulated Effect holds
\* an identity in dead_values, every further combination that succeeds
\* leaves it in dead_values and in no other bucket, and the only steps that
\* succeed tag the identity Dead or do not mention it.  Every step of a
\* chain starts from the Effect the steps before it accumulated, so the
\* property of one step carries along the whole chain.
C17_DeadIsAbsorbing ==
    ChainStepDone /\ IsEffect(result) =>
        \A id \in IdsIn(left.dead_values) :
            /\ BucketsOf(result, id) = {"dead_values"}
            /\ TagOfStep(LastStep, id) \in {"DeadValue", "NoValue"}

\* Mutated, Dead, Dead on one identity, the last with another version: the
\* identity is still dead, with the last version.
C17_Witness ==
    /\ ChainStepDone
    /\ IsEffect(result)
    /\ LastStep = 3
    /\ \E id \in IdsIn(left.dead_values) :
          /\ TagOfStep(1, id) = "MutatedValue"
          /\ TagOfStep(2, id) = "DeadValue"
          /\ TagOfStep(3, id) = "DeadValue"
          /\ ValueAt(right[3], id) # ValueAt(left, id)
          /\ BucketsOf(result, id) = {"dead_values"}
          /\ ValueAt(result, id) = ValueAt(right[3], id)

-----------------------------------------------------------------------------
(* Create, then delete *)

\* Step k asserted New or Translated for the identity and step k + 1 Dead.
CreatedThenDeleted(id, k) ==
    /\ k >= 1
    /\ TagOfStep(k, id) \in FirstAppearance
    /\ TagOfStep(k + 1, id) = "DeadValue"

\* C18: create-then-delete leaves no trace.  When the accumulated Effect
\* holds an identity in new_values or translated_values and the step holds
\* it in dead_values, the result holds it in no bucket; the step after that
\* combines against it as unmentioned, so whatever tag it asserts for the
\* identity is accepted and is the tag the chain then holds.
C18_CreateThenDeleteLeavesNoTrace ==
    /\ ChainStepDone =>
          \A id \in Ids :
              /\ TagAt(left, id) \in FirstAppearance
              /\ TagOfStep(LastStep, id) = "DeadValue"
              => IsEffect(result) /\ BucketsOf(result, id) = {}
    /\ ChainStepDone =>
          \A id \in Ids :
              CreatedThenDeleted(id, LastStep - 2) =>
                  /\ BucketsOf(left, id) = {}
                  /\ TagOfStep(LastStep, id) # "NoValue" =>
                        /\ IsEffect(result)
                        /\ TagAt(result, id) = TagOfStep(LastStep, id)
                        /\ ValueAt(result, id) = ValueAt(right[LastStep], id)

\* New, Dead, Mutated on one identity: the chain holds it as mutated.
C18_Witness ==
    /\ ChainStepDone
    /\ LastStep = 3
    /\ \E id \in Ids :
          /\ TagOfStep(1, id) = "NewValue"
          /\ TagOfStep(2, id) = "DeadValue"
          /\ BucketsOf(left, id) = {}
          /\ TagOfStep(3, id) = "MutatedValue"
          /\ IsEffect(result)
          /\ BucketsOf(result, id) = {"mutated_values"}

====
